---- MODULE Spec2Model ----
(***************************************************************************)
(* GoogleTrends-DataCollector: the caching wrapper around pytrends         *)
(* (PyTrendsWrapper), the empty-item filter (eliminate_empty), the         *)
(* bucket-partition partial sort (optimized_sort), the chained             *)
(* reconstruction (evaluate_data) and the run that strings them together   *)
(* (main), all of src/TrendsCollector.py.                                  *)
(*                                                                         *)
(* Python strings are kept in the state as TLA+ strings; wherever the code *)
(* compares, sorts or concatenates them they are sequences of code points  *)
(* (Chars), so that a cache key is the text the code really builds.        *)
(***************************************************************************)
EXTENDS Integers, Sequences, FiniteSets, Bags, TLC

VARIABLES
    redis_cache,     \* the redis store: cache key (text) -> yaml document
    request_kwargs,  \* PyTrendsWrapper.request_kwargs of the live wrapper
    key_prefix,      \* PyTrendsWrapper.key_prefix of the live wrapper
    call_count,      \* PyTrendsWrapper.call_count of the live wrapper
    web_log,         \* history: every build_payload/interest_over_time call made
    pc,              \* where the run stands
    run,             \* number of the process run / wrapper constructed
    input_file,      \* the list parse_input reads from the input file
    input_list,      \* main's input_list (the parsed file, then the filtered list)
    input_deque,     \* eliminate_empty: input_deque
    output,          \* eliminate_empty: output
    empty,           \* eliminate_empty: empty
    turn,            \* eliminate_empty: parity of the while-loop iteration count
    stack,           \* optimized_sort: the call stack, innermost frame last
    sorted_input,    \* main's sorted_input / the value optimized_sort returned
    sort_log,        \* history: one record per optimized_sort invocation that returned
    eval_i,          \* evaluate_data: the loop index i (0-based)
    data,            \* evaluate_data: the accumulated table
    last,            \* history: the last PyTrendsWrapper.get call and its outcome
    n_gets,          \* history: the number of get calls clients made on the wrapper alone
    resolved,        \* history: key -> what the live wrapper's first get of it returned
    clients          \* concurrent clients of one store: where each stands in its get

vars == <<redis_cache, request_kwargs, key_prefix, call_count, web_log, pc, run,
          input_file, input_list, input_deque, output, empty, turn, stack, sorted_input,
          sort_log, eval_i, data, last, n_gets, resolved, clients>>

(***************************************************************************)
(* Bounds of the model.                                                    *)
(***************************************************************************)
MaxLen == 3        \* longest list handed to optimized_sort on its own
MaxRunLen == 2     \* longest input file of a run of main
MaxFilterLen == 6  \* longest list handed to eliminate_empty on its own
MaxGets == 2       \* get calls made in all, in the specification of the wrapper alone
MaxEvalLen == 3    \* longest list handed to evaluate_data on its own

(***************************************************************************)
(* Text.                                                                   *)
(***************************************************************************)
Range(s) == {s[i] : i \in DOMAIN s}

\* The code points of every string the model uses.
Chars ==
    [s \in {"A", "B", "C", "A, B", "", "all", "US",
            "cat", "geo", "gprop", "timeframe"} |->
        CASE s = "A" -> <<65>>
          [] s = "B" -> <<66>>
          [] s = "C" -> <<67>>
          [] s = "A, B" -> <<65, 44, 32, 66>>
          [] s = "" -> <<>>
          [] s = "all" -> <<97, 108, 108>>
          [] s = "US" -> <<85, 83>>
          [] s = "cat" -> <<99, 97, 116>>
          [] s = "geo" -> <<103, 101, 111>>
          [] s = "gprop" -> <<103, 112, 114, 111, 112>>
          [] s = "timeframe" -> <<116, 105, 109, 101, 102, 114, 97, 109, 101>>]

\* Python's str.__lt__: lexicographic on code points.
StrLess(a, b) ==
    \E i \in 1..(Len(a) + 1) :
        /\ \A j \in 1..(i - 1) : j <= Len(b) /\ a[j] = b[j]
        /\ \/ i = Len(a) + 1 /\ i <= Len(b)
           \/ i <= Len(a) /\ i <= Len(b) /\ a[i] < b[i]

\* Every order in which the members of a (frozen)set can be iterated.
IterOrders(S) == {q \in [1..Cardinality(S) -> S] : Range(q) = S}

RECURSIVE insort(_, _)
insort(q, x) ==
    IF q = <<>> THEN <<x>>
    ELSE IF StrLess(Chars[x], Chars[Head(q)]) THEN <<x>> \o q
    ELSE <<Head(q)>> \o insort(Tail(q), x)

\* sorted(iterable_of_str): ascending, stable.
RECURSIVE sorted(_)
sorted(q) == IF q = <<>> THEN <<>> ELSE insort(sorted(Tail(q)), Head(q))

\* sep.join(parts), on code points.
RECURSIVE join(_, _)
join(sep, parts) ==
    IF parts = <<>> THEN <<>>
    ELSE IF Len(parts) = 1 THEN parts[1]
    ELSE parts[1] \o sep \o join(sep, Tail(parts))

\* str(n) for an int n >= 0.
RECURSIVE str_int(_)
str_int(n) == IF n < 10 THEN <<48 + n>> ELSE str_int(n \div 10) \o <<48 + (n % 10)>>

\* repr(s) for a str without quotes in it.
repr_str(s) == <<39>> \o Chars[s] \o <<39>>

\* str(t) for an item t = (name, value) of request_kwargs: "('cat', 16)".
str_item(kwargs, name) ==
    <<40>> \o repr_str(name) \o <<44, 32>>
           \o (IF name = "cat" THEN str_int(kwargs[name]) ELSE repr_str(kwargs[name]))
           \o <<41>>

S_RequestArguments ==
    <<82, 101, 113, 117, 101, 115, 116, 32, 65, 114, 103, 117, 109, 101, 110, 116, 115, 58, 32, 91>>
S_Close == <<93, 32, 45, 45, 32>>
S_Keys == <<75, 101, 121, 115, 58, 32, 91>>

\* A key prefix that leaves the request arguments out.
BlindKeyPrefix(kwargs) == S_RequestArguments \o S_Close

\* PyTrendsWrapper.__init__: self.key_prefix.
KeyPrefix(kwargs) ==
    LET names == sorted(CHOOSE q \in IterOrders(DOMAIN kwargs) : TRUE)
    IN  S_RequestArguments
          \o join(<<44, 32>>, [i \in 1..Len(names) |-> str_item(kwargs, names[i])])
          \o S_Close

\* A cache key that joins the members in the order of iteration, unsorted.
CacheKeyUnsorted(prefix, order) ==
    prefix \o S_Keys
      \o join(<<44, 32>>, [i \in 1..Len(order) |-> Chars[order[i]]])
      \o <<93>>

\* PyTrendsWrapper.get: cache_key, for the key iterated in the order `order`.
CacheKey(prefix, order) ==
    LET names == sorted(order)
    IN  prefix \o S_Keys
          \o join(<<44, 32>>, [i \in 1..Len(names) |-> Chars[names[i]]])
          \o <<93>>

(***************************************************************************)
(* Data frames, the yaml documents redis holds, and the oracle.            *)
(*                                                                         *)
(* A DataFrame is a function from column label to the column (a sequence   *)
(* of values, one per row); the code addresses columns by label only, so   *)
(* the order of the columns is not kept.  The empty DataFrame has no       *)
(* columns.                                                                *)
(***************************************************************************)
Items == {"A", "B", "A, B"}
Vals == {0, 4, 100}
EmptyDF == <<>>

\* DataFrame.empty
df_empty(df) == DOMAIN df = {} \/ \A c \in DOMAIN df : Len(df[c]) = 0

\* Series.max() of a column with at least one row.
col_max(col) == CHOOSE m \in Range(col) : \A v \in Range(col) : v <= m

\* yaml.dump(df): the document lists the columns, label and values.
yaml_dump(df) ==
    LET labels == sorted(CHOOSE q \in IterOrders(DOMAIN df) : TRUE)
    IN  [i \in 1..Len(labels) |-> <<labels[i], df[labels[i]]>>]

\* A load that keeps the labels and loses the values.
yaml_load_blank(doc) ==
    [c \in {doc[i][1] : i \in DOMAIN doc} |-> <<0>>]

\* yaml.load(doc, Loader=yaml.Loader): the DataFrame of the document.
yaml_load(doc) ==
    [c \in {doc[i][1] : i \in DOMAIN doc} |->
        (CHOOSE e \in Range(doc) : e[1] = c)[2]]

\* Every DataFrame the service can answer a keyword list with: no data, or
\* one row with a value for every keyword.
Answers(kw_list) == {EmptyDF} \cup [kw_list -> {<<v>> : v \in Vals}]

\* pytrends.build_payload(key, **request_kwargs); pytrends.interest_over_time():
\* the answers the service can give now.  The service is a function of the
\* request: asked the same thing again it answers as it did before.
interest_over_time(kwargs, kw_list) ==
    LET before == {e \in Range(web_log) :
                      e.ok /\ e.kwargs = kwargs /\ e.kw_list = kw_list}
    IN  IF before = {} THEN Answers(kw_list) ELSE {e.df : e \in before}

Call(kwargs, kw_list, ok, df) ==
    [kwargs |-> kwargs, kw_list |-> kw_list, ok |-> ok, df |-> df]

\* A hit that returns the stored columns with their values lost.
HitBlank(cache_key) ==
    [raised |-> FALSE, ret |-> yaml_load_blank(redis_cache[cache_key]),
     cache |-> redis_cache, count |-> call_count, log |-> web_log,
     cache_key |-> cache_key, hit |-> TRUE]

\* The outcome of a get that found cache_key in the store.
Hit(cache_key) ==
    [raised |-> FALSE, ret |-> yaml_load(redis_cache[cache_key]),
     cache |-> redis_cache, count |-> call_count, log |-> web_log,
     cache_key |-> cache_key, hit |-> TRUE]

\* A get that stores an empty frame for the key when its web call raises.
RaisedStored(key, cache_key) ==
    [raised |-> TRUE, ret |-> EmptyDF,
     cache |-> (cache_key :> yaml_dump(EmptyDF)) @@ redis_cache, count |-> call_count,
     log |-> Append(web_log, Call(request_kwargs, key, FALSE, EmptyDF)),
     cache_key |-> cache_key, hit |-> FALSE]

\* The outcome of a get whose web call raised.
Raised(key, cache_key) ==
    [raised |-> TRUE, ret |-> EmptyDF,
     cache |-> redis_cache, count |-> call_count,
     log |-> Append(web_log, Call(request_kwargs, key, FALSE, EmptyDF)),
     cache_key |-> cache_key, hit |-> FALSE]

\* The outcome of a get whose web call answered df.
Fetched(key, cache_key, df) ==
    LET cache == (cache_key :> yaml_dump(df)) @@ redis_cache
    IN  [raised |-> FALSE, ret |-> yaml_load(cache[cache_key]),
         cache |-> cache, count |-> call_count + 1,
         log |-> Append(web_log, Call(request_kwargs, key, TRUE, df)),
         cache_key |-> cache_key, hit |-> FALSE]

\* A get that never looks in the cache.
get_uncached(key) ==
    UNION { {Raised(key, cache_key)} \cup
            {Fetched(key, cache_key, df) : df \in interest_over_time(request_kwargs, key)}
          : cache_key \in {CacheKey(key_prefix, order) : order \in IterOrders(key)} }

\* PyTrendsWrapper.get(key): every outcome of the call in the current state.
\* An outcome is what the call returns (ret) or that it raised, and the
\* redis store, call_count and call history it leaves behind.
get(key) ==
    UNION { IF cache_key \in DOMAIN redis_cache
            THEN {Hit(cache_key)}
            ELSE {Raised(key, cache_key)} \cup
                 {Fetched(key, cache_key, df) :
                      df \in interest_over_time(request_kwargs, key)}
          : cache_key \in {CacheKey(key_prefix, order) : order \in IterOrders(key)} }

\* The history a get leaves: the call and its outcome, and the first value
\* the live wrapper returned for the key.
LastOf(key, o) ==
    [key |-> key, cache_key |-> o.cache_key, hit |-> o.hit, raised |-> o.raised,
     ret |-> o.ret, kwargs |-> request_kwargs, run |-> run]
ResolvedWith(key, o) ==
    IF o.raised \/ key \in DOMAIN resolved THEN resolved ELSE (key :> o.ret) @@ resolved

\* The effect of one get on the wrapper, the store and the histories.
GetEffect(key, o) ==
    /\ redis_cache' = o.cache
    /\ call_count' = o.count
    /\ web_log' = o.log
    /\ last' = LastOf(key, o)
    /\ resolved' = ResolvedWith(key, o)

(***************************************************************************)
(* The wrapper on its own: clients construct wrappers over one redis store *)
(* and call get.                                                           *)
(***************************************************************************)
\* parse_input: the request_kwargs a command line can produce.
DefaultConfig == [timeframe |-> "all", cat |-> 16, gprop |-> ""]
Configs ==
    { DefaultConfig,
      [timeframe |-> "all", cat |-> 16, gprop |-> "", geo |-> "US"] }

\* The keys the clients of the wrapper alone ask for.
ClientKeys == {{"A"}, {"A", "B"}, {"A, B"}}

NoGet == [key |-> {}, cache_key |-> <<>>, hit |-> FALSE, raised |-> FALSE,
          ret |-> EmptyDF, kwargs |-> <<>>, run |-> 0]

\* The parts of the state a phase of the run does not touch.
IdleFilter == input_deque = <<>> /\ output = <<>> /\ empty = <<>> /\ turn = 0
IdleSort == stack = <<>> /\ sorted_input = <<>> /\ sort_log = <<>>
IdleEvaluate == eval_i = 0 /\ data = <<>>

\* No client is in a get of its own.
NoClients == clients = <<>>

\* PyTrendsWrapper.__init__ over an empty redis store.
InitCache ==
    /\ redis_cache = <<>>
    /\ request_kwargs \in Configs
    /\ key_prefix = KeyPrefix(request_kwargs)
    /\ call_count = 0
    /\ web_log = <<>>
    /\ pc = "client"
    /\ run = 1
    /\ input_file = <<>>
    /\ input_list = <<>>
    /\ IdleFilter /\ IdleSort /\ IdleEvaluate
    /\ last = NoGet
    /\ n_gets = 0
    /\ resolved = <<>>
    /\ NoClients

\* PyTrendsWrapper.__init__: a new wrapper over the same redis store.
NewWrapper ==
    /\ pc = "client"
    /\ \E kwargs \in Configs :
          /\ request_kwargs' = kwargs
          /\ key_prefix' = KeyPrefix(kwargs)
    /\ call_count' = 0
    /\ resolved' = <<>>
    /\ UNCHANGED <<redis_cache, web_log, pc, run, input_file, input_list, input_deque, output,
                   empty, turn, stack, sorted_input, sort_log, eval_i, data, last,
                   n_gets>>
    /\ UNCHANGED clients

\* A client calls PyTrendsWrapper.get(key); the call returns or raises.
ClientGet ==
    /\ pc = "client"
    /\ n_gets < MaxGets
    /\ n_gets' = n_gets + 1
    /\ \E key \in ClientKeys : \E o \in get(key) : GetEffect(key, o)
    /\ UNCHANGED <<request_kwargs, key_prefix, pc, run, input_file, input_list, input_deque,
                   output, empty, turn, stack, sorted_input, sort_log, eval_i, data>>
    /\ UNCHANGED clients

NextCache == NewWrapper \/ ClientGet

SpecCache == InitCache /\ [][NextCache]_vars

(***************************************************************************)
(* Two wrappers with the same request arguments over one redis store, each *)
(* run by a process of its own.  A get is the statements of lines 52 to 64 *)
(* one after another, and the store is touched by three of them: the       *)
(* membership test of line 56, the set of line 61 and the get of line 64;  *)
(* the statements of the two processes interleave.                         *)
(* A client is where it stands in its get (at), the key and cache key of   *)
(* the get, the frame it fetched, its wrapper's call_count, and whether a  *)
(* set of its own has written a cache key the store already held.          *)
(***************************************************************************)
Clients == {1, 2}

IdleClient ==
    [at |-> "idle", key |-> {}, cache_key |-> <<>>, df |-> EmptyDF, ret |-> EmptyDF,
     call_count |-> 0, overwrote |-> FALSE]

\* The parts of the state the concurrent clients do not use.
ClientsOnly ==
    UNCHANGED <<request_kwargs, key_prefix, call_count, pc, run, input_file, input_list,
                input_deque, output, empty, turn, stack, sorted_input, sort_log, eval_i,
                data, last, resolved>>

InitConcurrent ==
    /\ redis_cache = <<>>
    /\ request_kwargs = DefaultConfig
    /\ key_prefix = KeyPrefix(request_kwargs)
    /\ call_count = 0
    /\ web_log = <<>>
    /\ pc = "concurrent"
    /\ run = 1
    /\ input_file = <<>>
    /\ input_list = <<>>
    /\ IdleFilter /\ IdleSort /\ IdleEvaluate
    /\ last = NoGet
    /\ n_gets = 0
    /\ resolved = <<>>
    /\ clients = [c \in Clients |-> IdleClient]

\* Lines 52 to 56: the cache key, and the test `cache_key not in redis_cache`.
GetBegin(c) ==
    /\ pc = "concurrent"
    /\ clients[c].at = "idle"
    /\ n_gets < MaxGets
    /\ n_gets' = n_gets + 1
    /\ \E key \in ClientKeys :
         \E cache_key \in {CacheKey(key_prefix, order) : order \in IterOrders(key)} :
            clients' = [clients EXCEPT ![c] =
                [@ EXCEPT !.at = IF cache_key \in DOMAIN redis_cache THEN "load" ELSE "call",
                          !.key = key, !.cache_key = cache_key]]
    /\ UNCHANGED <<redis_cache, web_log>>
    /\ ClientsOnly

\* Lines 58 and 59: the web call, which raises or answers.
GetCall(c) ==
    /\ pc = "concurrent"
    /\ clients[c].at = "call"
    /\ \/ /\ web_log' = Append(web_log, Call(request_kwargs, clients[c].key, FALSE, EmptyDF))
          /\ clients' = [clients EXCEPT ![c] = [@ EXCEPT !.at = "idle"]]
       \/ \E df \in interest_over_time(request_kwargs, clients[c].key) :
             /\ web_log' = Append(web_log, Call(request_kwargs, clients[c].key, TRUE, df))
             /\ clients' = [clients EXCEPT ![c] = [@ EXCEPT !.at = "set", !.df = df]]
    /\ UNCHANGED <<redis_cache, n_gets>>
    /\ ClientsOnly

\* Lines 61 and 62: redis_cache.set, and the increment of call_count.
GetSet(c) ==
    /\ pc = "concurrent"
    /\ clients[c].at = "set"
    /\ redis_cache' = (clients[c].cache_key :> yaml_dump(clients[c].df)) @@ redis_cache
    /\ clients' = [clients EXCEPT ![c] =
           [@ EXCEPT !.at = "load",
                     !.call_count = @ + 1,
                     !.overwrote = @ \/ clients[c].cache_key \in DOMAIN redis_cache]]
    /\ UNCHANGED <<web_log, n_gets>>
    /\ ClientsOnly

\* Line 64: load what the store holds under the cache key, and return it.
GetLoad(c) ==
    /\ pc = "concurrent"
    /\ clients[c].at = "load"
    /\ clients' = [clients EXCEPT ![c] =
           [@ EXCEPT !.at = "idle", !.ret = yaml_load(redis_cache[clients[c].cache_key])]]
    /\ UNCHANGED <<redis_cache, web_log, n_gets>>
    /\ ClientsOnly

NextConcurrent ==
    \E c \in Clients : GetBegin(c) \/ GetCall(c) \/ GetSet(c) \/ GetLoad(c)

SpecConcurrent == InitConcurrent /\ [][NextConcurrent]_vars

(***************************************************************************)
(* eliminate_empty.                                                        *)
(*                                                                         *)
(* A list element is a str object: its text s and its identity id.  Two    *)
(* elements with one id are one object; the filter only reads the text.    *)
(***************************************************************************)
BatchSize == 5

Obj(s, id) == [s |-> s, id |-> id]
Texts(q) == {q[i].s : i \in DOMAIN q}

\* SubSeq that accepts an empty range.
Slice(q, from, to) == [i \in 1..(to - from + 1) |-> q[from + i - 1]]

\* A loop body that accepts the items with data and forgets the others.
RECURSIVE classify_dropping(_, _, _, _)
classify_dropping(cur_list, df, out, deque) ==
    IF cur_list = <<>> THEN [output |-> out, deque |-> deque, error |-> FALSE]
    ELSE LET item == Head(cur_list)
         IN  IF item.s \notin DOMAIN df
             THEN [output |-> out, deque |-> deque, error |-> TRUE]
             ELSE IF col_max(df[item.s]) # 0
             THEN classify_dropping(Tail(cur_list), df, Append(out, item), deque)
             ELSE classify_dropping(Tail(cur_list), df, out, deque)

\* A loop body that puts the items to try again at the front of the deque.
RECURSIVE classify_front(_, _, _, _)
classify_front(cur_list, df, out, deque) ==
    IF cur_list = <<>> THEN [output |-> out, deque |-> deque, error |-> FALSE]
    ELSE LET item == Head(cur_list)
         IN  IF item.s \notin DOMAIN df
             THEN [output |-> out, deque |-> deque, error |-> TRUE]
             ELSE IF col_max(df[item.s]) # 0
             THEN classify_front(Tail(cur_list), df, Append(out, item), deque)
             ELSE classify_front(Tail(cur_list), df, out, <<item>> \o deque)

\* The for loop over cur_list of one batch that has data: every item goes to
\* output or back to the deque; data[item] raises KeyError when the frame
\* has no such column, and the loop stops there.
RECURSIVE classify(_, _, _, _)
classify(cur_list, df, out, deque) ==
    IF cur_list = <<>> THEN [output |-> out, deque |-> deque, error |-> FALSE]
    ELSE LET item == Head(cur_list)
         IN  IF item.s \notin DOMAIN df
             THEN [output |-> out, deque |-> deque, error |-> TRUE]
             ELSE IF col_max(df[item.s]) # 0
             THEN classify(Tail(cur_list), df, Append(out, item), deque)
             ELSE classify(Tail(cur_list), df, out, Append(deque, item))

\* One iteration of `while input_deque`: pop a batch, get it, classify it.
\* A raising get ends the run in main's RetryError handler, a KeyError in
\* its handler of unexpected exceptions.
FilterStep ==
    /\ pc = "filter"
    /\ input_deque # <<>>
    /\ LET n == IF Len(input_deque) < BatchSize THEN Len(input_deque) ELSE BatchSize
           cur_list == Slice(input_deque, 1, n)
           rest == Slice(input_deque, n + 1, Len(input_deque))
       IN  \E o \in get(Texts(cur_list)) :
             /\ GetEffect(Texts(cur_list), o)
             /\ IF o.raised
                THEN /\ pc' = "throttled"
                     /\ input_deque' = rest
                     /\ UNCHANGED <<output, empty>>
                ELSE IF df_empty(o.ret)
                THEN /\ empty' = empty \o cur_list
                     /\ input_deque' = rest
                     /\ UNCHANGED <<pc, output>>
                ELSE LET r == classify(cur_list, o.ret, output, rest)
                     IN  /\ output' = r.output
                         /\ input_deque' = r.deque
                         /\ pc' = IF r.error THEN "error" ELSE pc
                         /\ UNCHANGED empty
    /\ turn' = 1 - turn
    /\ UNCHANGED <<request_kwargs, key_prefix, run, input_file, input_list, stack, sorted_input,
                   sort_log, eval_i, data, n_gets>>
    /\ UNCHANGED clients

\* `return output, empty` once the deque is empty.
FilterReturn ==
    /\ pc = "filter"
    /\ input_deque = <<>>
    /\ pc' = "filtered"
    /\ UNCHANGED <<redis_cache, request_kwargs, key_prefix, call_count, web_log, run,
                   input_file, input_list, input_deque, output, empty, turn, stack, sorted_input,
                   sort_log, eval_i, data, last, n_gets, resolved>>
    /\ UNCHANGED clients

\* Every list of at most n of the texts S, each element the interned object
\* of its text.
ListsOver(S, n) ==
    UNION {[1..k -> {Obj(s, 0) : s \in S}] : k \in 0..n}

\* eliminate_empty(pytrends_wrapper, input_list) on a fresh wrapper and store.
InitFilter ==
    /\ redis_cache = <<>>
    /\ request_kwargs = DefaultConfig
    /\ key_prefix = KeyPrefix(request_kwargs)
    /\ call_count = 0
    /\ web_log = <<>>
    /\ pc = "filter"
    /\ run = 1
    /\ input_file \in ListsOver({"A", "B"}, MaxFilterLen)
    /\ input_list = input_file
    /\ input_deque = input_list
    /\ output = <<>> /\ empty = <<>> /\ turn = 0
    /\ IdleSort /\ IdleEvaluate
    /\ last = NoGet
    /\ n_gets = 0
    /\ resolved = <<>>
    /\ NoClients

NextFilter == FilterStep \/ FilterReturn

SpecFilter == InitFilter /\ [][NextFilter]_vars

\* The loop is run by one thread that does nothing else: an iteration that
\* can be taken is taken.
SpecFilterFair == SpecFilter /\ WF_vars(NextFilter)

(***************************************************************************)
(* optimized_sort.                                                         *)
(*                                                                         *)
(* The recursion is run on an explicit call stack.  A frame holds the      *)
(* locals of one invocation: input_list, pivot, the position i of the for  *)
(* loop (1-based), buckets (a dict: the <<key, list>> pairs in insertion   *)
(* order), and, for the dict comprehension of line 98, the position j of   *)
(* its iteration over buckets and the pairs it has built so far (subs).    *)
(***************************************************************************)
Threshold == 95

Abs(n) == IF n < 0 THEN -n ELSE n

\* A comprehension that hands every bucket to optimized_sort.
RecursedAlways(key) == TRUE

\* The filter of the dict comprehension of line 98: `if abs(key) > 95`.
Recursed(key) == Abs(key) > Threshold

Frame(list) ==
    [input_list |-> list, pivot |-> list[(Len(list) \div 2) + 1], i |-> 1,
     buckets |-> <<>>, j |-> 1, subs |-> <<>>]

\* A test that never takes val for the pivot.
IsNever(a, b) == FALSE

\* `val is pivot`: the two are one object.
Is(a, b) == a.id = b.id /\ a.s = b.s

\* dict: the position of key in d, 0 when absent.
Find(d, key) ==
    IF \E k \in DOMAIN d : d[k][1] = key
    THEN CHOOSE k \in DOMAIN d : d[k][1] = key
    ELSE 0

\* d.setdefault(key, []).append(x)
SetDefaultAppend(d, key, x) ==
    IF Find(d, key) = 0 THEN Append(d, <<key, <<x>>>>)
    ELSE [d EXCEPT ![Find(d, key)] = <<key, Append(@[2], x)>>]

\* d |= e, for e whose keys are all keys of d.
Update(d, e) ==
    [k \in DOMAIN d |->
        IF Find(e, d[k][1]) = 0 THEN d[k] ELSE <<d[k][1], e[Find(e, d[k][1])][2]>>]

\* A sorted() that orders the items by ascending key.
RECURSIVE SortedItemsAscending(_)
SortedItemsAscending(d) ==
    IF d = <<>> THEN <<>>
    ELSE LET k == CHOOSE k \in DOMAIN d : \A m \in DOMAIN d : d[m][1] >= d[k][1]
         IN  <<d[k]>> \o SortedItemsAscending([m \in 1..(Len(d) - 1) |->
                                                   IF m < k THEN d[m] ELSE d[m + 1]])

\* sorted(d.items(), key=lambda x: x[0], reverse=True): the keys are distinct.
RECURSIVE SortedItems(_)
SortedItems(d) ==
    IF d = <<>> THEN <<>>
    ELSE LET k == CHOOSE k \in DOMAIN d : \A m \in DOMAIN d : d[m][1] <= d[k][1]
         IN  <<d[k]>> \o SortedItems([m \in 1..(Len(d) - 1) |->
                                          IF m < k THEN d[m] ELSE d[m + 1]])

\* [item for key, bucket in buckets for item in bucket]
RECURSIVE Flatten(_)
Flatten(d) == IF d = <<>> THEN <<>> ELSE Head(d)[2] \o Flatten(Tail(d))

\* Lines 98 to 109 with the pivot put first in bucket 0.
FinishPivotFirst(f) ==
    LET merged == Update(f.buckets, f.subs)
        with0 == IF Find(merged, 0) = 0 THEN Append(merged, <<0, <<f.pivot>>>>)
                 ELSE [merged EXCEPT ![Find(merged, 0)] = <<0, <<f.pivot>> \o @[2]>>]
    IN  Flatten(SortedItems(with0))

\* Lines 98 to 109 once the comprehension is built: merge the sorted buckets
\* in, put the pivot in bucket 0, order the buckets by descending key, unwrap.
Finish(f) ==
    Flatten(SortedItems(SetDefaultAppend(Update(f.buckets, f.subs), 0, f.pivot)))

\* The record kept of an invocation that returned.
Returned(f, depth, result) ==
    [input_list |-> f.input_list, pivot |-> f.pivot, buckets |-> f.buckets,
     depth |-> depth, result |-> result]

Top == stack[Len(stack)]
SetTop(f) == [stack EXCEPT ![Len(stack)] = f]
Pop == Slice(stack, 1, Len(stack) - 1)

\* The call optimized_sort(pytrends_wrapper, input_list) made by the caller
\* of the sort: lines 78 to 82.
SortCall ==
    /\ pc = "sort"
    /\ stack = <<>>
    /\ IF Len(input_list) <= 1
       THEN /\ sorted_input' = input_list
            /\ sort_log' = Append(sort_log,
                   [input_list |-> input_list, pivot |-> Obj("", 0), buckets |-> <<>>,
                    depth |-> 0, result |-> input_list])
            /\ pc' = "sorted"
            /\ UNCHANGED stack
       ELSE /\ stack' = <<Frame(input_list)>>
            /\ UNCHANGED <<sorted_input, sort_log, pc>>
    /\ UNCHANGED <<redis_cache, request_kwargs, key_prefix, call_count, web_log, run,
                   input_file, input_list, input_deque, output, empty, turn, eval_i, data, last,
                   n_gets, resolved>>
    /\ UNCHANGED clients

\* One iteration of `for val in input_list`: lines 83 to 95.
SortLoopStep ==
    /\ pc = "sort"
    /\ stack # <<>>
    /\ Top.i <= Len(Top.input_list)
    /\ LET f == Top
           val == f.input_list[f.i]
       IN  IF Is(val, f.pivot)
           THEN /\ stack' = SetTop([f EXCEPT !.i = @ + 1])
                /\ UNCHANGED <<redis_cache, call_count, web_log, last, resolved, pc>>
           ELSE \E o \in get({f.pivot.s, val.s}) :
                  /\ GetEffect({f.pivot.s, val.s}, o)
                  /\ IF o.raised
                     THEN pc' = "throttled" /\ UNCHANGED stack
                     ELSE IF val.s \notin DOMAIN o.ret \/ f.pivot.s \notin DOMAIN o.ret
                     THEN pc' = "error" /\ UNCHANGED stack
                     ELSE LET diff == col_max(o.ret[val.s]) - col_max(o.ret[f.pivot.s])
                          IN  /\ stack' = SetTop([f EXCEPT
                                     !.i = @ + 1,
                                     !.buckets = SetDefaultAppend(@, diff, val)])
                              /\ UNCHANGED pc
    /\ UNCHANGED <<request_kwargs, key_prefix, run, input_file, input_list, input_deque, output,
                   empty, turn, sorted_input, sort_log, eval_i, data, n_gets>>
    /\ UNCHANGED clients

\* One step of the dict comprehension of line 98 over buckets.items(): a
\* bucket whose key is within the threshold is passed over; another is
\* handed to optimized_sort, which returns at once a list of fewer than two
\* items and is entered otherwise.
SortRecurse ==
    /\ pc = "sort"
    /\ stack # <<>>
    /\ Top.i > Len(Top.input_list)
    /\ Top.j <= Len(Top.buckets)
    /\ LET f == Top
           key == f.buckets[f.j][1]
           val == f.buckets[f.j][2]
       IN  IF Recursed(key)
           THEN IF Len(val) <= 1
                THEN stack' = SetTop([f EXCEPT !.j = @ + 1,
                                               !.subs = Append(@, <<key, val>>)])
                ELSE stack' = Append(stack, Frame(val))
           ELSE stack' = SetTop([f EXCEPT !.j = @ + 1])
    /\ UNCHANGED <<redis_cache, request_kwargs, key_prefix, call_count, web_log, pc,
                   run, input_file, input_list, input_deque, output, empty, turn, sorted_input,
                   sort_log, eval_i, data, last, n_gets, resolved>>
    /\ UNCHANGED clients

\* Lines 98 to 109 of the innermost invocation, and its return to the
\* comprehension that called it or to the caller of the sort.
SortReturn ==
    /\ pc = "sort"
    /\ stack # <<>>
    /\ Top.i > Len(Top.input_list)
    /\ Top.j > Len(Top.buckets)
    /\ LET result == Finish(Top)
       IN  /\ sort_log' = Append(sort_log, Returned(Top, Len(stack) - 1, result))
           /\ IF Len(stack) = 1
              THEN /\ stack' = <<>>
                   /\ sorted_input' = result
                   /\ pc' = "sorted"
              ELSE LET caller == stack[Len(stack) - 1]
                   IN  /\ stack' = [Pop EXCEPT ![Len(stack) - 1] =
                              [caller EXCEPT
                                  !.j = @ + 1,
                                  !.subs = Append(@, <<caller.buckets[caller.j][1], result>>)]]
                       /\ UNCHANGED <<sorted_input, pc>>
    /\ UNCHANGED <<redis_cache, request_kwargs, key_prefix, call_count, web_log, run,
                   input_file, input_list, input_deque, output, empty, turn, eval_i, data, last,
                   n_gets, resolved>>
    /\ UNCHANGED clients

\* The lists a file can be parsed into: equal texts are one interned object
\* each, or every element is an object of its own.
Interned(texts) == [p \in DOMAIN texts |-> Obj(texts[p], 0)]
Separate(texts) == [p \in DOMAIN texts |-> Obj(texts[p], p)]
InputLists(n) ==
    UNION {{Interned(t) : t \in [1..k -> Items]} \cup {Separate(t) : t \in [1..k -> Items]}
           : k \in 0..n}

\* optimized_sort(pytrends_wrapper, input_list) on a fresh wrapper and store.
InitSort ==
    /\ redis_cache = <<>>
    /\ request_kwargs = DefaultConfig
    /\ key_prefix = KeyPrefix(request_kwargs)
    /\ call_count = 0
    /\ web_log = <<>>
    /\ pc = "sort"
    /\ run = 1
    /\ input_file \in InputLists(MaxLen)
    /\ input_list = input_file
    /\ IdleFilter /\ IdleSort /\ IdleEvaluate
    /\ last = NoGet
    /\ n_gets = 0
    /\ resolved = <<>>
    /\ NoClients

\* The caller sorts the same list a second time, against the store as the
\* first invocation left it or against an emptied one.
SortAgain ==
    /\ pc = "sorted"
    /\ Cardinality({k \in DOMAIN sort_log : sort_log[k].depth = 0}) = 1
    /\ pc' = "sort"
    /\ sorted_input' = <<>>
    /\ redis_cache' \in {redis_cache, <<>>}
    /\ UNCHANGED <<request_kwargs, key_prefix, call_count, web_log, run, input_file, input_list,
                   input_deque, output, empty, turn, stack, sort_log, eval_i, data,
                   last, n_gets, resolved>>
    /\ UNCHANGED clients

NextSort == SortCall \/ SortLoopStep \/ SortRecurse \/ SortReturn \/ SortAgain

SpecSort == InitSort /\ [][NextSort]_vars

(***************************************************************************)
(* evaluate_data.                                                          *)
(*                                                                         *)
(* The table is the sequence of its columns, label and values.  A value is *)
(* a float kept as a fraction <<n, d>> in lowest terms; d = 0 is what the  *)
(* division by a zero maximum leaves (inf for n = 1, nan for n = 0).       *)
(***************************************************************************)
RECURSIVE GCD(_, _)
GCD(a, b) == IF b = 0 THEN a ELSE GCD(b, a % b)

Norm(n, d) ==
    IF d = 0 THEN <<IF n = 0 THEN 0 ELSE 1, 0>>
    ELSE IF n = 0 THEN <<0, 1>>
    ELSE <<n \div GCD(n, d), d \div GCD(n, d)>>

\* column.astype(float)
AsFloat(col) == [k \in DOMAIN col |-> <<col[k], 1>>]

\* A concat that keeps the new column only.
concat_data_replacing(table, label, col) == <<[label |-> label, col |-> AsFloat(col)]>>

\* concat_data(data, column): None is an empty table.
concat_data(table, label, col) == Append(table, [label |-> label, col |-> AsFloat(col)])

\* A multiply that rescales the last column only.
multiply_last_only(table, a, b) ==
    LET factor == Norm(a, b)
    IN  [c \in DOMAIN table |->
            IF c < Len(table) THEN table[c]
            ELSE [label |-> table[c].label,
                  col |-> [k \in DOMAIN table[c].col |->
                             Norm(table[c].col[k][1] * factor[1],
                                  table[c].col[k][2] * factor[2])]]]

\* data.multiply(a / b)
multiply(table, a, b) ==
    LET factor == Norm(a, b)
    IN  [c \in DOMAIN table |->
            [label |-> table[c].label,
             col |-> [k \in DOMAIN table[c].col |->
                        Norm(table[c].col[k][1] * factor[1],
                             table[c].col[k][2] * factor[2])]]]

\* One iteration of `for i, val in enumerate(input_list)`: lines 129 to 139.
EvaluateStep ==
    /\ pc = "evaluate"
    /\ eval_i < Len(sorted_input)
    /\ LET val == sorted_input[eval_i + 1]
           is_last == eval_i = Len(sorted_input) - 1
           key == IF is_last THEN {val.s} ELSE {val.s, sorted_input[eval_i + 2].s}
       IN  \E o \in get(key) :
             /\ GetEffect(key, o)
             /\ IF o.raised
                THEN pc' = "throttled" /\ UNCHANGED <<eval_i, data>>
                ELSE IF \E c \in key : c \notin DOMAIN o.ret
                THEN pc' = "error" /\ UNCHANGED <<eval_i, data>>
                ELSE /\ eval_i' = eval_i + 1
                     /\ data' =
                          IF is_last
                          THEN concat_data(data, val.s, o.ret[val.s])
                          ELSE multiply(concat_data(data, val.s, o.ret[val.s]),
                                        col_max(o.ret[val.s]),
                                        col_max(o.ret[sorted_input[eval_i + 2].s]))
                     /\ UNCHANGED pc
    /\ UNCHANGED <<request_kwargs, key_prefix, run, input_file, input_list, input_deque,
                   output, empty, turn, stack, sorted_input, sort_log, n_gets>>
    /\ UNCHANGED clients

\* `return data` once the loop is over.
EvaluateReturn ==
    /\ pc = "evaluate"
    /\ eval_i = Len(sorted_input)
    /\ pc' = "evaluated"
    /\ UNCHANGED <<redis_cache, request_kwargs, key_prefix, call_count, web_log, run,
                   input_file, input_list, input_deque, output, empty, turn, stack,
                   sorted_input, sort_log, eval_i, data, last, n_gets, resolved>>
    /\ UNCHANGED clients

\* The items of the lists evaluate_data is given on its own.
EvalItems == {"A", "B", "C"}

\* Requests the service has answered before, for another store: {A, B} with
\* the maxima 80 and 40, and {C} with the maximum 50.
StubLog ==
    <<Call(DefaultConfig, {"A", "B"}, TRUE, ("A" :> <<80>>) @@ ("B" :> <<40>>)),
      Call(DefaultConfig, {"C"}, TRUE, ("C" :> <<50>>))>>

\* evaluate_data(pytrends_wrapper, input_list) on a fresh wrapper and store.
InitEvaluate ==
    /\ redis_cache = <<>>
    /\ request_kwargs = DefaultConfig
    /\ key_prefix = KeyPrefix(request_kwargs)
    /\ call_count = 0
    /\ web_log \in {<<>>, StubLog}
    /\ pc = "evaluate"
    /\ run = 1
    /\ input_file \in ListsOver(EvalItems, MaxEvalLen)
    /\ input_list = input_file
    /\ IdleFilter
    /\ stack = <<>> /\ sort_log = <<>>
    /\ sorted_input = input_list
    /\ IdleEvaluate
    /\ last = NoGet
    /\ n_gets = 0
    /\ resolved = <<>>
    /\ NoClients

NextEvaluate == EvaluateStep \/ EvaluateReturn

SpecEvaluate == InitEvaluate /\ [][NextEvaluate]_vars

(***************************************************************************)
(* main: one run is parse_input, the wrapper, the filter, the sort, the    *)
(* reconstruction and the save; pc ends at "done" (output saved), "exit"   *)
(* (no valid tokens), "throttled" (the RetryError handler) or "error" (the *)
(* handler of unexpected exceptions).  A throttled run is followed by a     *)
(* second run over the same redis store.                                   *)
(***************************************************************************)
\* An input file of three items, one of them holding the separator the cache
\* key joins the items with (a quoted csv field).
CommaFile == Interned(<<"A", "B", "A, B">>)

\* A process is started on an input file, with the default request
\* arguments, over an empty redis store.
Init ==
    /\ redis_cache = <<>>
    /\ request_kwargs = DefaultConfig
    /\ key_prefix = <<>>
    /\ call_count = 0
    /\ web_log = <<>>
    /\ pc = "start"
    /\ run = 1
    /\ input_file \in InputLists(MaxRunLen) \cup {CommaFile}
    /\ input_list = <<>>
    /\ IdleFilter /\ IdleSort /\ IdleEvaluate
    /\ last = NoGet
    /\ n_gets = 0
    /\ resolved = <<>>
    /\ NoClients

\* Lines 309 to 320: parse the input, construct the wrapper, call the filter.
MainBegin ==
    /\ pc = "start"
    /\ input_list' = input_file
    /\ key_prefix' = KeyPrefix(request_kwargs)
    /\ call_count' = 0
    /\ resolved' = <<>>
    /\ input_deque' = input_file
    /\ output' = <<>> /\ empty' = <<>>
    /\ pc' = "filter"
    /\ UNCHANGED <<redis_cache, request_kwargs, web_log, run, input_file, turn, stack,
                   sorted_input, sort_log, eval_i, data, last, n_gets>>
    /\ UNCHANGED clients

\* A main that calls the sort whatever the filter returned.
MainAfterFilterNoExit ==
    /\ pc = "filtered"
    /\ input_list' = output
    /\ pc' = "sort"
    /\ UNCHANGED <<redis_cache, request_kwargs, key_prefix, call_count, web_log, run,
                   input_file, input_deque, output, empty, turn, stack, sorted_input,
                   sort_log, eval_i, data, last, n_gets, resolved>>
    /\ UNCHANGED clients

\* Lines 320 to 340: take the filter's lists, save the empty tokens, exit when
\* nothing is left, call the sort otherwise.
MainAfterFilter ==
    /\ pc = "filtered"
    /\ input_list' = output
    /\ pc' = IF output = <<>> THEN "exit" ELSE "sort"
    /\ UNCHANGED <<redis_cache, request_kwargs, key_prefix, call_count, web_log, run,
                   input_file, input_deque, output, empty, turn, stack, sorted_input,
                   sort_log, eval_i, data, last, n_gets, resolved>>
    /\ UNCHANGED clients

\* Line 348: call evaluate_data on the sorted list.
MainEvaluate ==
    /\ pc = "sorted"
    /\ eval_i' = 0
    /\ data' = <<>>
    /\ pc' = "evaluate"
    /\ UNCHANGED <<redis_cache, request_kwargs, key_prefix, call_count, web_log, run,
                   input_file, input_list, input_deque, output, empty, turn, stack,
                   sorted_input, sort_log, last, n_gets, resolved>>
    /\ UNCHANGED clients

\* Lines 355 to 364: save the table.
MainSave ==
    /\ pc = "evaluated"
    /\ pc' = "done"
    /\ UNCHANGED <<redis_cache, request_kwargs, key_prefix, call_count, web_log, run,
                   input_file, input_list, input_deque, output, empty, turn, stack,
                   sorted_input, sort_log, eval_i, data, last, n_gets, resolved>>
    /\ UNCHANGED clients

\* The operator runs the same command a second time after the first run was
\* throttled: a new process over the redis store the first one left.
Rerun ==
    /\ pc = "throttled"
    /\ run = 1
    /\ run' = run + 1
    /\ pc' = "start"
    /\ key_prefix' = <<>>
    /\ call_count' = 0
    /\ input_list' = <<>>
    /\ input_deque' = <<>> /\ output' = <<>> /\ empty' = <<>> /\ turn' = 0
    /\ stack' = <<>> /\ sorted_input' = <<>> /\ sort_log' = <<>>
    /\ eval_i' = 0 /\ data' = <<>>
    /\ resolved' = <<>>
    /\ UNCHANGED <<redis_cache, request_kwargs, web_log, input_file, last, n_gets>>
    /\ UNCHANGED clients

Next ==
    \/ MainBegin
    \/ FilterStep
    \/ FilterReturn
    \/ MainAfterFilter
    \/ SortCall
    \/ SortLoopStep
    \/ SortRecurse
    \/ SortReturn
    \/ MainEvaluate
    \/ EvaluateStep
    \/ EvaluateReturn
    \/ MainSave
    \/ Rerun

Spec == Init /\ [][Next]_vars

\* The successful web calls whose answer was stored under cache_key.
StoredBy(cache_key) ==
    {e \in Range(web_log) :
        /\ e.ok
        /\ CacheKey(KeyPrefix(e.kwargs), CHOOSE order \in IterOrders(e.kw_list) : TRUE)
               = cache_key}

\* C1 (cache idempotence): once a get of key k has completed on a wrapper,
\* another get of k on that wrapper makes no web call, leaves call_count and
\* the redis store as they were, does not raise, and returns the profile the
\* first get returned.
C1_CacheIdempotence ==
    [][ (n_gets' = n_gets + 1 /\ last'.key \in DOMAIN resolved)
        => /\ web_log' = web_log
           /\ call_count' = call_count
           /\ redis_cache' = redis_cache
           /\ ~last'.raised
           /\ last'.ret = resolved[last'.key] ]_vars

\* Witness of C1: one wrapper fetched a key and then got the same key again.
C1_Witness ==
    /\ n_gets = 2 /\ call_count = 1 /\ last.hit
    /\ DOMAIN resolved = {last.key}

\* C2 (key order-independence): a key the live wrapper has resolved is found in
\* the store whatever the order its members are listed in, under one cache
\* entry, which holds the profile that was returned; and no keyword set was
\* fetched twice under one configuration.
C2_KeyOrderIndependence ==
    /\ \A key \in DOMAIN resolved : \A order \in IterOrders(key) :
          /\ CacheKey(key_prefix, order) \in DOMAIN redis_cache
          /\ yaml_load(redis_cache[CacheKey(key_prefix, order)]) = resolved[key]
    /\ \A i, j \in DOMAIN web_log :
          (/\ web_log[i].ok /\ web_log[j].ok
           /\ web_log[i].kwargs = web_log[j].kwargs
           /\ web_log[i].kw_list = web_log[j].kw_list) => i = j

\* Witness of C2: {A, B} was fetched once and then resolved again from the cache.
C2_Witness ==
    /\ n_gets = 2 /\ call_count = 1 /\ last.hit
    /\ last.key = {"A", "B"} /\ DOMAIN resolved = {{"A", "B"}}
    /\ Len(web_log) = 1 /\ web_log[1].kw_list = {"A", "B"}

\* C3 (configuration isolation): a get that returns under request arguments C
\* returns a profile that a web call made under C stored; an entry stored
\* under other request arguments is never the one read.
C3_ConfigurationIsolation ==
    (last.key # {} /\ ~last.raised)
        => LET stored == StoredBy(last.cache_key)
           IN  /\ stored # {}
               /\ \A e \in stored : e.kwargs = last.kwargs /\ e.df = last.ret

\* Witness of C3: a key stored under one configuration was asked for under
\* another, and was fetched again.
C3_Witness ==
    /\ Len(web_log) = 2
    /\ web_log[1].ok /\ web_log[2].ok
    /\ web_log[1].kw_list = web_log[2].kw_list
    /\ web_log[1].kwargs # web_log[2].kwargs
    /\ last.kwargs = web_log[2].kwargs /\ ~last.hit /\ ~last.raised

\* The multiset of the elements of a list.
BagOf(q) == [x \in Range(q) |-> Cardinality({i \in DOMAIN q : q[i] = x})]

\* C5 (filter outputs are disjoint): when eliminate_empty returns, no item
\* is both in empty_items and in signal_items.
C5_FilterDisjoint ==
    pc = "filtered" => Texts(output) \cap Texts(empty) = {}

\* C6 (filter conservation): at every iteration boundary the items of the
\* input are, one for one, the items of the queue, of signal_items and of
\* empty_items; and an iteration over a batch with rows appends the batch's
\* zero-maximum items, in order, to the back of the queue and the others to
\* signal_items.
C6_FilterConservation ==
    /\ [](pc \in {"filter", "filtered"}
            => BagOf(input_list) = BagOf(input_deque \o output \o empty))
    /\ [][ (pc = "filter" /\ pc' = "filter" /\ turn' # turn /\ ~df_empty(last'.ret))
           => LET n == IF Len(input_deque) < BatchSize
                       THEN Len(input_deque) ELSE BatchSize
                  cur_list == Slice(input_deque, 1, n)
                  rest == Slice(input_deque, n + 1, Len(input_deque))
                  zero(item) == col_max(last'.ret[item.s]) = 0
                  signal(item) == col_max(last'.ret[item.s]) # 0
              IN  /\ input_deque' = rest \o SelectSeq(cur_list, zero)
                  /\ output' = output \o SelectSeq(cur_list, signal)
                  /\ empty' = empty ]_vars

\* Witness of C6: the filter returned after it had put an item back in the
\* queue and later accepted it, and dropped a batch without data.
C6_Witness ==
    /\ pc = "filtered" /\ output # <<>> /\ empty # <<>>
    /\ \E e \in Range(web_log) : e.ok /\ ~df_empty(e.df)
          /\ \E c \in DOMAIN e.df : col_max(e.df[c]) = 0 /\ c \in Texts(output)

\* C7 (filter termination): the while loop of eliminate_empty ends, by a
\* return or by an exception.
C7_FilterTerminates == <>(pc # "filter")

\* The invocations of optimized_sort that returned, and those made by the
\* caller of the sort among them.
Invocations == Range(sort_log)
TopLevel == {r \in Invocations : r.depth = 0}

\* The members of the bucket of key `key` of an invocation, before line 98.
Bucket(r, key) == IF Find(r.buckets, key) = 0 THEN <<>> ELSE r.buckets[Find(r.buckets, key)][2]

\* C4 (sort returns a permutation): every invocation of optimized_sort
\* returns the items of its input, each as many times as it is there.
C4_SortPermutation ==
    \A r \in Invocations : BagOf(r.result) = BagOf(r.input_list)

\* C8 (sort pivot placement): in what an invocation on two or more items
\* returns, the pivot stands right after the members of bucket 0, in their
\* order; the items of bucket 100 stand before the pivot and the items of
\* bucket -100 after it.
C8_SortPivotPlacement ==
    \A r \in Invocations :
        Len(r.input_list) >= 2 =>
            \E p \in DOMAIN r.result :
                /\ Is(r.result[p], r.pivot)
                /\ p > Len(Bucket(r, 0))
                /\ Slice(r.result, p - Len(Bucket(r, 0)), p - 1) = Bucket(r, 0)
                /\ \A x \in Range(Bucket(r, 100)) :
                      /\ \E q \in 1..(p - 1) : r.result[q] = x
                      /\ \A q \in DOMAIN r.result : r.result[q] = x => q < p
                /\ \A x \in Range(Bucket(r, -100)) :
                      /\ \E q \in (p + 1)..Len(r.result) : r.result[q] = x
                      /\ \A q \in DOMAIN r.result : r.result[q] = x => q > p

\* Witness of C8: an invocation returned whose pivot shares bucket 0 with
\* another item and has an item in bucket 100 or in bucket -100.
C8_Witness ==
    \E r \in Invocations :
        /\ Bucket(r, 0) # <<>>
        /\ Bucket(r, 100) # <<>> \/ Bucket(r, -100) # <<>>

\* C9 (sort determinism): the invocations the caller makes on one input
\* return one and the same sequence, whether the later one finds the store as
\* the earlier one left it or finds it empty.
C9_SortDeterminism ==
    \A r1, r2 \in TopLevel :
        r1.input_list = r2.input_list => r1.result = r2.result

\* Witness of C9: a list of three was sorted twice with buckets far from the
\* pivot, the second time against an emptied store.
C9_Witness ==
    /\ Len(sort_log) >= 2
    /\ sort_log[Len(sort_log)].depth = 0
    /\ Len(sort_log[Len(sort_log)].input_list) = 3
    /\ Bucket(sort_log[Len(sort_log)], 100) # <<>>
    /\ \E k \in 1..(Len(sort_log) - 1) : sort_log[k].depth = 0
    /\ \E k, m \in DOMAIN web_log : k < m /\ web_log[k].kw_list = web_log[m].kw_list

\* C10 (throttle abort): a get whose web call raises writes no cache entry,
\* leaves call_count as it was and ends the run in the RetryError handler;
\* a run that ended there makes no web call; and no step of any run removes
\* or changes an entry of the store.
C10_ThrottleAbort ==
    [][ /\ (Len(web_log') > Len(web_log) /\ ~web_log'[Len(web_log')].ok)
            => /\ redis_cache' = redis_cache
               /\ call_count' = call_count
               /\ pc' = "throttled"
               /\ last'.cache_key \notin DOMAIN redis_cache'
        /\ pc = "throttled" => web_log' = web_log /\ pc' \in {"throttled", "start"}
        /\ \A k \in DOMAIN redis_cache :
              k \in DOMAIN redis_cache' /\ redis_cache'[k] = redis_cache[k] ]_vars

\* Witness of C10: a run was throttled after it had cached a key, and the
\* next run got that key from the store.
C10_Witness ==
    /\ run = 2 /\ last.run = 2 /\ last.hit
    /\ \E k \in DOMAIN web_log : k > 1 /\ ~web_log[k].ok

\* C11 (empty input to the reconstructor): evaluate_data called with an
\* empty list does not return normally; it ends in an error.
C11_EmptyInputRejected ==
    ~(pc = "evaluated" /\ sorted_input = <<>>)

\* C12 (all items filtered): a run whose filter returns no signal item exits
\* at once, with no further get, no sort, no reconstruction and no output
\* table, and stays there; the sort is entered only from a filter that
\* returned a signal item, the reconstruction only from a sort that returned,
\* and the output is saved only after the reconstruction returned.
C12_AllItemsFiltered ==
    [][ /\ (pc = "filtered" /\ output = <<>>)
            => /\ pc' = "exit"
               /\ web_log' = web_log /\ last' = last /\ redis_cache' = redis_cache
               /\ stack' = stack /\ sort_log' = sort_log
               /\ eval_i' = eval_i /\ data' = data
        /\ pc = "exit" => pc' = "exit"
        /\ (pc' = "sort" /\ pc # "sort") => (pc = "filtered" /\ output # <<>>)
        /\ pc' = "sorted" => pc = "sort"
        /\ (pc' = "evaluate" /\ pc # "evaluate") => pc = "sorted"
        /\ pc' = "evaluated" => pc = "evaluate"
        /\ pc' = "done" => pc = "evaluated" ]_vars

\* Witness of C12: a run over a file with items exited after the filter had
\* classified every batch empty.
C12_Witness ==
    /\ pc = "exit" /\ input_file # <<>> /\ output = <<>>
    /\ Len(empty) = Len(input_file)

\* The texts of a list, in order.
TextSeq(q) == [i \in DOMAIN q |-> q[i].s]

\* The profiles the service gave for the keyword set kw.
Profiles(kw) == {e.df : e \in {x \in Range(web_log) : x.ok /\ x.kw_list = kw}}

\* evaluate_data returned the table of [A, B, C], and the service answers
\* {A, B} with max(A) = 80 and max(B) = 40 and {C} with max(C) = 50.
ChainCase ==
    /\ pc = "evaluated"
    /\ TextSeq(sorted_input) = <<"A", "B", "C">>
    /\ Profiles({"A", "B"}) = {("A" :> <<80>>) @@ ("B" :> <<40>>)}
    /\ Profiles({"C"}) = {("C" :> <<50>>)}

\* C13 as stated (reconstruction chain): in the chain case the column of A
\* is the raw A column of the {A, B} profile multiplied by 40/50.
C13_ChainAsStated ==
    ChainCase => data[1].col = <<Norm(80 * 40, 50)>>

\* C13 amended: in the chain case, with a {B, C} profile whose max(C) is not
\* zero, the column of A is the raw A column of the {A, B} profile multiplied
\* by 80/40 and by max(B)/max(C) of the {B, C} profile.
C13_ChainCorrectness ==
    ChainCase =>
        \A bc \in Profiles({"B", "C"}) :
            col_max(bc["C"]) # 0 =>
                /\ data[1].label = "A"
                /\ data[1].col = <<Norm(80 * 80 * col_max(bc["B"]), 40 * col_max(bc["C"]))>>

\* Witness of C13: the chain case, with a {B, C} profile of maxima 4 and 100.
C13_Witness ==
    /\ ChainCase
    /\ \E bc \in Profiles({"B", "C"}) : col_max(bc["B"]) = 4 /\ col_max(bc["C"]) = 100

\* The key evaluate_data resolves at position i (1-based) of its list.
ExpectedKey(i) ==
    IF i = Len(sorted_input) THEN {sorted_input[i].s}
    ELSE {sorted_input[i].s, sorted_input[i + 1].s}

\* C14 (reconstruction shape and query sequence): evaluate_data on x_1..x_n
\* makes one get per position, of {x_i, x_(i+1)} and at the end of {x_n}, in
\* that order; the table it returns has n columns labelled x_1..x_n in order,
\* and the last is the x_n column of the {x_n} profile, as floats, unscaled.
C14_ReconstructionShape ==
    /\ []((pc = "evaluated" /\ sorted_input # <<>>)
            => /\ eval_i = Len(sorted_input)
               /\ Len(data) = Len(sorted_input)
               /\ \A i \in DOMAIN data : data[i].label = sorted_input[i].s
               /\ LET x_n == sorted_input[Len(sorted_input)].s
                  IN  data[Len(data)].col = AsFloat(resolved[{x_n}][x_n]))
    /\ [][ /\ (pc = "evaluate" /\ eval_i < Len(sorted_input))
                  => /\ last'.key = ExpectedKey(eval_i + 1)
                     /\ \/ eval_i' = eval_i + 1 /\ pc' = "evaluate"
                        \/ eval_i' = eval_i /\ pc' \in {"throttled", "error"}
           /\ (pc = "evaluate" /\ eval_i = Len(sorted_input))
                  => last' = last /\ web_log' = web_log /\ data' = data ]_vars

\* Witness of C14: evaluate_data returned the table of three different items.
C14_Witness ==
    /\ pc = "evaluated" /\ Len(sorted_input) = 3 /\ Len(data) = 3
    /\ Cardinality(Texts(sorted_input)) = 3
    /\ call_count = 3

\* The keys of the buckets of an invocation, and the diff of an item of its
\* input that is not the pivot: the key of the bucket it was appended to.
BucketKeys(r) == {r.buckets[k][1] : k \in DOMAIN r.buckets}
Bucketed(r) == UNION {Range(Bucket(r, key)) : key \in BucketKeys(r)}
DiffOf(r, x) == CHOOSE key \in BucketKeys(r) : x \in Range(Bucket(r, key))

\* C15 (sort output is bucket-ordered): in what an invocation returns, an
\* item of a bucket of greater key stands before every item of a bucket of
\* smaller key, so that the items of one bucket form one run and the runs
\* stand by descending key; every item of the result but the pivot comes from
\* a bucket and every bucket has an item in the result.
C15_SortBucketOrdered ==
    \A r \in Invocations :
        Len(r.input_list) >= 2 =>
            /\ \A p \in DOMAIN r.result :
                  ~Is(r.result[p], r.pivot) => r.result[p] \in Bucketed(r)
            /\ \A key \in BucketKeys(r) :
                  \E p \in DOMAIN r.result : r.result[p] \in Range(Bucket(r, key))
            /\ \A p, q \in DOMAIN r.result :
                  (/\ ~Is(r.result[p], r.pivot) /\ ~Is(r.result[q], r.pivot)
                   /\ DiffOf(r, r.result[p]) > DiffOf(r, r.result[q])) => p < q

\* Witness of C15: an invocation returned that had put two items in buckets
\* of different keys.
C15_Witness ==
    \E r \in Invocations : Cardinality(BucketKeys(r)) >= 2

\* The keys the sort has asked the wrapper for: with a store that was empty
\* when the sort began, each was sent to the service the first time.
KeysResolved == {e.kw_list : e \in Range(web_log)}

\* The items of the input of an invocation that it put in the bucket of key
\* `key`, in the order of the input.
InputOrder(r, key) ==
    LET member(x) == ~Is(x, r.pivot) /\ x \in Range(Bucket(r, key))
    IN  SelectSeq(r.input_list, member)

\* Every invocation in progress but the outermost was called by the
\* comprehension of its caller on the bucket at the caller's position, and
\* that bucket's key k has |k| > 95.
CalledOnFarBuckets ==
    \A d \in 2..Len(stack) :
        LET f == stack[d - 1]
        IN  /\ f.i > Len(f.input_list)
            /\ f.j \in DOMAIN f.buckets
            /\ Abs(f.buckets[f.j][1]) > 95
            /\ stack[d].input_list = f.buckets[f.j][2]

\* The members of a bucket stand in the result together, in the order they
\* have in the input.
KeepsInputOrder(r, key) ==
    /\ Bucket(r, key) = InputOrder(r, key)
    /\ \E p \in DOMAIN r.result :
          Slice(r.result, p, p + Len(Bucket(r, key)) - 1) = Bucket(r, key)

\* C16 as stated (recursion threshold): optimized_sort calls itself only on
\* a bucket whose key k has |k| > 95; of a bucket with |k| <= 95, bucket 0
\* included, no key of two of its members is ever resolved by the sort, and
\* its members stand in the result in the order they have in the input.
C16_AsStated ==
    /\ CalledOnFarBuckets
    /\ \A r \in Invocations : \A key \in BucketKeys(r) :
          Abs(key) <= 95 =>
              /\ \A x, y \in Range(Bucket(r, key)) :
                    x.s # y.s => {x.s, y.s} \notin KeysResolved
              /\ KeepsInputOrder(r, key)

\* C16 amended: as stated, for the keys of two members of which neither has
\* the text of the pivot.
C16_RecursionThreshold ==
    /\ CalledOnFarBuckets
    /\ \A r \in Invocations : \A key \in BucketKeys(r) :
          Abs(key) <= 95 =>
              /\ \A x, y \in Range(Bucket(r, key)) :
                    (x.s # y.s /\ x.s # r.pivot.s /\ y.s # r.pivot.s)
                        => {x.s, y.s} \notin KeysResolved
              /\ KeepsInputOrder(r, key)

\* Witness of C16: an invocation returned with two items of different text,
\* neither the pivot's, in one bucket within the threshold.
C16_Witness ==
    \E r \in Invocations : \E key \in BucketKeys(r) :
        /\ Abs(key) <= 95
        /\ \E x, y \in Range(Bucket(r, key)) :
              x.s # y.s /\ x.s # r.pivot.s /\ y.s # r.pivot.s

\* q begins with p.
IsPrefix(p, q) == Len(p) <= Len(q) /\ Slice(q, 1, Len(p)) = p

\* C17 (filter batching): the queue starts as the input; every iteration
\* resolves the key of the first min(5, length) items of the queue, a key of
\* 1 to 5 members, and leaves the items behind them at the front of the
\* queue in their order, the items put back standing after them.
C17_FilterBatching ==
    /\ []((pc = "filter" /\ last = NoGet) => input_deque = input_list)
    /\ [][ (pc = "filter" /\ turn' # turn)
              => LET n == IF Len(input_deque) < 5 THEN Len(input_deque) ELSE 5
                     cur_list == Slice(input_deque, 1, n)
                     rest == Slice(input_deque, n + 1, Len(input_deque))
                 IN  /\ n >= 1
                     /\ last'.key = Texts(cur_list)
                     /\ Cardinality(last'.key) \in 1..5
                     /\ IsPrefix(rest, input_deque')
                     /\ \A k \in (Len(rest) + 1)..Len(input_deque') :
                           input_deque'[k] \in Range(cur_list) ]_vars

\* Witness of C17: of a list of six the first five were batched, one of them
\* was put back behind the sixth, and the two were batched together.
C17_Witness ==
    /\ pc = "filter" /\ Len(input_list) = 6
    /\ Len(web_log) = 2 /\ web_log[1].ok /\ web_log[2].ok
    /\ web_log[1].kw_list = {"A", "B"} /\ web_log[2].kw_list = {"B"}
    /\ ~df_empty(web_log[1].df) /\ col_max(web_log[1].df["B"]) = 0
    /\ input_list[6].s = "B" /\ last.key = {"B"}

\* C18 (call counter accounts for distinct keys): in the first run over an
\* empty store, whenever no get has raised, call_count is the number of
\* different keys the phases have resolved and the number of entries of the
\* store.
C18_CallCountDistinctKeys ==
    (run = 1 /\ pc # "start" /\ \A k \in DOMAIN web_log : web_log[k].ok)
        => /\ call_count = Cardinality(DOMAIN resolved)
           /\ call_count = Cardinality(DOMAIN redis_cache)

\* C19 (at most one external call under concurrent access): with two
\* clients of one store and one configuration, whose gets interleave, no
\* keyword set is fetched twice and no set writes a cache key the store
\* already holds.
C19_AtMostOnceConcurrent ==
    /\ \A i, j \in DOMAIN web_log :
          (/\ web_log[i].ok /\ web_log[j].ok
           /\ web_log[i].kw_list = web_log[j].kw_list) => i = j
    /\ \A c \in DOMAIN clients : ~clients[c].overwrote

\* A bound on the steps an invocation on n items takes, its own and those of
\* the invocations it makes: n of the loop, one per bucket, one to return.
StepBound(n) == n * n + n

\* The steps left for the buckets of a frame from position k on.
RECURSIVE BucketSteps(_, _)
BucketSteps(f, k) ==
    IF k > Len(f.buckets) THEN 0
    ELSE 1 + StepBound(Len(f.buckets[k][2])) + BucketSteps(f, k + 1)

\* The steps left for a frame: the rest of its loop and its buckets to come
\* (at most n - 1 of them, with n - 1 items between them), or the buckets it
\* has not handed on yet, and its return.
FrameSteps(f, calling) ==
    LET n == Len(f.input_list)
    IN  IF f.i <= n
        THEN (n - f.i + 1) + (n - 1) + StepBound(n - 1) + 1
        ELSE BucketSteps(f, IF calling THEN f.j + 1 ELSE f.j) + 1

RECURSIVE StackSteps(_)
StackSteps(d) ==
    IF d = 0 THEN 0 ELSE FrameSteps(stack[d], d < Len(stack)) + StackSteps(d - 1)

\* The steps left for the sort: none once it has returned or raised.
StepsLeft ==
    IF pc # "sort" THEN 0
    ELSE IF stack = <<>> THEN 1 + StepBound(Len(input_list))
    ELSE StackSteps(Len(stack))

\* C20 (sort termination): a call of optimized_sort ends, by a return or by
\* an exception: a get of its loop always has an outcome, and every
\* statement executed lowers a bound on the steps that are left;
\* an invocation in progress that was called by another has a list shorter
\* than its caller's, without the caller's pivot in it, and was called after
\* the caller's loop; every step of the loop on an item that is not the
\* pivot resolves the key {pivot, item}; and an invocation on n >= 2
\* different items that returned had put n - 1 items in buckets, the key
\* {pivot, item} of each resolved.
C20_SortTerminates ==
    /\ []((pc = "sort" /\ stack # <<>> /\ Top.i <= Len(Top.input_list))
             => get({Top.pivot.s, Top.input_list[Top.i].s}) # {})
    /\ [][ pc = "sort" => (StepsLeft' < StepsLeft /\ StepsLeft' >= 0) ]_vars
    /\ [](\A d \in 2..Len(stack) :
             /\ stack[d - 1].i > Len(stack[d - 1].input_list)
             /\ Len(stack[d].input_list) < Len(stack[d - 1].input_list)
             /\ \A x \in Range(stack[d].input_list) : ~Is(x, stack[d - 1].pivot))
    /\ [](\A r \in Invocations :
             (Len(r.input_list) >= 2 /\ Cardinality(Texts(r.input_list)) = Len(r.input_list))
                 => /\ Len(Flatten(r.buckets)) = Len(r.input_list) - 1
                    /\ \A x \in Range(r.input_list) :
                          x # r.pivot => /\ x \in Bucketed(r)
                                         /\ {r.pivot.s, x.s} \in KeysResolved)
    /\ [][ (pc = "sort" /\ stack # <<>> /\ Len(stack') = Len(stack)
              /\ stack'[Len(stack)].i = stack[Len(stack)].i + 1
              /\ stack[Len(stack)].input_list[stack[Len(stack)].i] # stack[Len(stack)].pivot)
               => last'.key = {stack[Len(stack)].pivot.s,
                               stack[Len(stack)].input_list[stack[Len(stack)].i].s} ]_vars

\* Witness of C20: a sort of three different items returned after an
\* invocation on a bucket of two of them.
C20_Witness ==
    /\ pc = "sorted"
    /\ Cardinality(Texts(input_list)) = 3
    /\ \E r \in Invocations : r.depth = 1 /\ Len(r.input_list) = 2
====
